---- MODULE Spec2Model ----
(***************************************************************************)
(* The restart-based timetable solver generate_timetable of src/app.py.    *)
(*                                                                         *)
(* One behaviour is one call of generate_timetable(student_df,             *)
(* course_info).  The random draws of the call (random.shuffle of the      *)
(* course list and of the candidate slots, random.randint of the room) are *)
(* the existentially quantified values of the actions.  The solver runs on *)
(* a sub-grid of the 5 x 4 week of the source (the first nd days and the   *)
(* first ns time slots, chosen by the scenario), because the full grid has *)
(* 20! candidate orders per course.                                        *)
(*                                                                         *)
(* The variables ending in 2 are a second run of the solver on the same    *)
(* inputs that is handed the same random draws but iterates each course's  *)
(* student set (a Python set, whose iteration order is not fixed by the    *)
(* random seed) in its own order.                                          *)
(***************************************************************************)
EXTENDS Integers, Sequences, FiniteSets, TLC

VARIABLES
    days,               \* line 61: the day names in use
    slots,              \* line 62: the time ranges in use
    student_df,         \* argument: the rows (Student ID, Subject)
    course_info,        \* argument: subject -> faculty
    set_order,          \* subject -> order in which `for student in enrolled_students` yields
    set_order2,         \* the same for the second run
    all_subjects,       \* line 69, shuffled in place at line 78
    attempt,            \* number of iterations of the loop of line 72 begun so far
    pc,                 \* "loop" (line 72), "place" (line 80), "check" (line 141), "done"
    idx,                \* position of the loop of line 80 in all_subjects
    timetable,          \* line 73
    student_schedule,   \* line 74: student -> day -> list of occupied slots
    success,            \* line 75
    returned,           \* the value returned at line 142 or 144
    timetable2,
    student_schedule2,
    success2,
    returned2,
    available_times,    \* lines 84-85: the shuffled candidate list of one course
    best_time           \* line 87 / 121: the outcome of the scan of one course

vars == <<days, slots, student_df, course_info, set_order, set_order2,
          all_subjects, attempt, pc, idx, timetable, student_schedule,
          success, returned, timetable2, student_schedule2, success2,
          returned2, available_times, best_time>>

-----------------------------------------------------------------------------
(* Constants of the source and bounds of the model *)

AllDays == <<"Monday", "Tuesday", "Wednesday", "Thursday", "Friday">>

AllSlots == <<"09:00 AM - 10:30 AM", "11:00 AM - 12:30 PM",
              "02:00 PM - 03:30 PM", "04:00 PM - 05:30 PM">>

\* range(100)
MaxAttempts == 100

\* num_classes_today >= 4
DailyMax == 4

\* random.randint(1, 8) draws from 1..8; the model draws from 1..MaxRoom
MaxRoom == 2

\* None (best_time) and float('inf') (best_penalty)
NoTime == <<>>

Inf == <<>>

-----------------------------------------------------------------------------
(* Helpers *)

Range(seq) == {seq[i] : i \in 1..Len(seq)}

RECURSIVE Perms(_)
Perms(S) ==
    IF S = {} THEN {<<>>}
    ELSE UNION {{<<x>> \o p : p \in Perms(S \ {x})} : x \in S}

\* random.shuffle(list): any permutation of the list
Shuffles(list) == Perms(Range(list))

\* the orders in which iterating a Python set may yield its elements
SetOrders(S) == Perms(S)

\* [(d, s) for d in days for s in slots]
GridOf(ds, ss) ==
    [k \in 1..(Len(ds) * Len(ss)) |->
        <<ds[((k - 1) \div Len(ss)) + 1], ss[((k - 1) % Len(ss)) + 1]>>]

Grid == GridOf(days, slots)

\* course_students[subj]: a defaultdict(set) filled from student_df
CourseStudentsOf(df, subj) == {r.ID : r \in {x \in df : x.Subject = subj}}

course_students == [c \in DOMAIN course_info |-> CourseStudentsOf(student_df, c)]

\* student_df['Student ID'].unique()
StudentsOf(df) == {r.ID : r \in df}

Students == StudentsOf(student_df)

-----------------------------------------------------------------------------
(* One attempt's fresh state *)

StaleTimetable == timetable

\* timetable = []
NewTimetable == <<>>

StaleSchedule == student_schedule

\* {s: defaultdict(list) for s in student_df['Student ID'].unique()}
NewStudentSchedule == [s \in Students |-> [d \in Range(days) |-> <<>>]]

-----------------------------------------------------------------------------
(* The evaluation of one candidate slot, lines 91-116 *)

NeverClash(sched, student, day, slot) == FALSE

\* slot in student_schedule[student][day]
Clash(sched, student, day, slot) == slot \in Range(sched[student][day])

\* num_classes_today >= 4
DailyLimitReached(n) == n >= DailyMax

PenaltySwapped(n) ==
    IF n = 0 THEN -500
    ELSE IF n = 1 THEN -1000
    ELSE IF n = 2 THEN 100
    ELSE 500

\* the contribution of one student with n classes on the day
Penalty(n) ==
    IF n = 0 THEN -1000
    ELSE IF n = 1 THEN -500
    ELSE IF n = 2 THEN 100
    ELSE 500

\* the loop `for student in enrolled_students` from the i-th student on,
\* with its two `break`s
RECURSIVE EvalStudents(_, _, _, _, _, _)
EvalStudents(order, i, sched, day, slot, penalty) ==
    IF i > Len(order)
    THEN [clash |-> FALSE, daily_limit_reached |-> FALSE, penalty |-> penalty]
    ELSE LET student == order[i]
             num_classes_today == Len(sched[student][day])
         IN  IF Clash(sched, student, day, slot)
             THEN [clash |-> TRUE, daily_limit_reached |-> FALSE,
                   penalty |-> penalty]
             ELSE IF DailyLimitReached(num_classes_today)
             THEN [clash |-> FALSE, daily_limit_reached |-> TRUE,
                   penalty |-> penalty]
             ELSE EvalStudents(order, i + 1, sched, day, slot,
                               penalty + Penalty(num_classes_today))

\* the same loop with the flags assigned per student and no `break`:
\* the last student's flags survive
RECURSIVE EvalStudentsNoBreak(_, _, _, _, _, _)
EvalStudentsNoBreak(order, i, sched, day, slot, acc) ==
    IF i > Len(order) THEN acc
    ELSE LET student == order[i]
             num_classes_today == Len(sched[student][day])
         IN  EvalStudentsNoBreak(order, i + 1, sched, day, slot,
                [clash |-> Clash(sched, student, day, slot),
                 daily_limit_reached |-> DailyLimitReached(num_classes_today),
                 penalty |-> acc.penalty + Penalty(num_classes_today)])

EvalSlotLastWins(order, sched, day, slot) ==
    EvalStudentsNoBreak(order, 1, sched, day, slot,
        [clash |-> FALSE, daily_limit_reached |-> FALSE, penalty |-> 0])

\* clash = False; daily_limit_reached = False; penalty = 0; for student ...
EvalSlot(order, sched, day, slot) ==
    EvalStudents(order, 1, sched, day, slot, 0)

-----------------------------------------------------------------------------
(* The scan of the shuffled candidates, lines 87-121 *)

ImprovesOrTies(penalty, best_penalty) ==
    best_penalty = Inf \/ penalty <= best_penalty[1]

\* penalty < best_penalty
Improves(penalty, best_penalty) ==
    best_penalty = Inf \/ penalty < best_penalty[1]

\* the loop `for day, slot in available_times` from the i-th candidate on
RECURSIVE ScanSlots(_, _, _, _, _)
ScanSlots(times, i, sched, order, best) ==
    IF i > Len(times) THEN best
    ELSE LET day == times[i][1]
             slot == times[i][2]
             ev == EvalSlot(order, sched, day, slot)
         IN  ScanSlots(times, i + 1, sched, order,
                IF /\ ~ev.clash
                   /\ ~ev.daily_limit_reached
                   /\ Improves(ev.penalty, best.best_penalty)
                THEN [best_time |-> times[i], best_penalty |-> <<ev.penalty>>]
                ELSE best)

\* best_time after the scan (NoTime when no candidate is feasible)
BestTime(times, sched, order) ==
    ScanSlots(times, 1, sched, order,
              [best_time |-> NoTime, best_penalty |-> Inf]).best_time

-----------------------------------------------------------------------------
(* Recording a placement, lines 124-135 *)

\* f'CR-{n}'
RoomLabel(n) == <<"CR", n>>

\* the record appended to timetable
Row(subj, time, room) ==
    [Subject |-> subj, Faculty |-> course_info[subj], Day |-> time[1],
     TimeSlot |-> time[2], Room |-> RoomLabel(room)]

UpdateNothing(sched, order, day, slot) == sched

UpdateShared(sched, order, day, slot) ==
    [s \in DOMAIN sched |->
        IF order # <<>> THEN [sched[s] EXCEPT ![day] = Append(@, slot)]
        ELSE sched[s]]

\* for student in enrolled_students: student_schedule[student][day].append(slot)
UpdateTracker(sched, order, day, slot) ==
    [s \in DOMAIN sched |->
        IF s \in Range(order) THEN [sched[s] EXCEPT ![day] = Append(@, slot)]
        ELSE sched[s]]

\* pd.DataFrame(timetable): the rows and nothing else
ReturnValue(tt) == [rows |-> tt]

-----------------------------------------------------------------------------
(* Inputs: what process_data hands to generate_timetable *)

Enrol(student, subjects) == {[ID |-> student, Subject |-> c] : c \in subjects}

Taught(subjects) == [c \in Range(subjects) |-> "Unknown"]

\* one student in three courses, two slots: no attempt can place all
OverfullWeek ==
    [nd |-> 1, ns |-> 2, subjects |-> <<"A", "B", "C">>,
     df |-> Enrol("S1", {"A", "B", "C"})]

\* two slots; C shares a student with A and with B: an attempt fails
\* when A and B took different slots before C
TightWeek ==
    [nd |-> 1, ns |-> 2, subjects |-> <<"A", "B", "C">>,
     df |-> Enrol("S1", {"A", "C"}) \cup Enrol("S2", {"B", "C"})]

\* two days of two slots, overlapping enrollments
SharedCourse ==
    [nd |-> 2, ns |-> 2, subjects |-> <<"A", "B", "C">>,
     df |-> Enrol("S1", {"A", "B"}) \cup Enrol("S2", {"B", "C"})]

\* one student, no other students, two and three courses on two days
SoleStudentTwo ==
    [nd |-> 2, ns |-> 2, subjects |-> <<"A", "B">>,
     df |-> Enrol("S1", {"A", "B"})]

SoleStudentThree ==
    [nd |-> 2, ns |-> 2, subjects |-> <<"A", "B", "C">>,
     df |-> Enrol("S1", {"A", "B", "C"})]

\* pairwise disjoint student sets (C has no student) on a single slot
DisjointCourses ==
    [nd |-> 1, ns |-> 1, subjects |-> <<"A", "B", "C">>,
     df |-> Enrol("S1", {"A"}) \cup Enrol("S2", {"B"})]

\* one day of four slots, one student in four courses
FullDay ==
    [nd |-> 1, ns |-> 4, subjects |-> <<"A", "B", "C", "D">>,
     df |-> Enrol("S1", {"A", "B", "C", "D"})]

\* one student in five courses, a single slot
FiveOnOneSlot ==
    [nd |-> 1, ns |-> 1, subjects |-> <<"A", "B", "C", "D", "E">>,
     df |-> Enrol("S1", {"A", "B", "C", "D", "E"})]

Scenarios ==
    {OverfullWeek, TightWeek, SharedCourse, SoleStudentTwo, SoleStudentThree,
     DisjointCourses}

CapScenarios == {FullDay, FiveOnOneSlot}

\* the iteration orders of the student sets of the courses
SetOrderChoices(df, subjects) ==
    {f \in [Range(subjects) ->
              UNION {SetOrders(CourseStudentsOf(df, c)) : c \in Range(subjects)}] :
        \A c \in Range(subjects) : f[c] \in SetOrders(CourseStudentsOf(df, c))}

-----------------------------------------------------------------------------
(* The call generate_timetable(student_df, course_info) *)

\* the state on entry to generate_timetable, before line 72
Entry(scenarios) ==
    \E sc \in scenarios :
        /\ days = SubSeq(AllDays, 1, sc.nd)
        /\ slots = SubSeq(AllSlots, 1, sc.ns)
        /\ student_df = sc.df
        /\ course_info = Taught(sc.subjects)
        /\ set_order \in SetOrderChoices(sc.df, sc.subjects)
        /\ set_order2 \in SetOrderChoices(sc.df, sc.subjects)
        /\ all_subjects = sc.subjects
        /\ attempt = 0
        /\ pc = "loop"
        /\ idx = 0
        /\ timetable = <<>>
        /\ student_schedule =
               [s \in StudentsOf(sc.df) |->
                   [d \in Range(SubSeq(AllDays, 1, sc.nd)) |-> <<>>]]
        /\ success = TRUE
        /\ returned = ReturnValue(<<>>)
        /\ timetable2 = <<>>
        /\ student_schedule2 =
               [s \in StudentsOf(sc.df) |->
                   [d \in Range(SubSeq(AllDays, 1, sc.nd)) |-> <<>>]]
        /\ success2 = TRUE
        /\ returned2 = ReturnValue(<<>>)
        /\ available_times = <<>>
        /\ best_time = NoTime

Init == Entry(Scenarios)

InitCap == Entry(CapScenarios)

\* lines 84-121 for subj in both runs: what the scans of one shuffled
\* candidate list leave in best_time, for every list random.shuffle can give
Scans(subj) ==
    {[first |-> BestTime(times, student_schedule, set_order[subj]),
      second |-> BestTime(times, student_schedule2, set_order2[subj])] :
        times \in Shuffles(Grid)}

\* the second run's iteration of the loop of line 80 for subj, on the draws
\* of the first run; after its own `break` it places no more
Second(subj, best2, room) ==
    IF ~success2
    THEN UNCHANGED <<timetable2, student_schedule2, success2>>
    ELSE IF best2 = NoTime
    THEN /\ success2' = FALSE
         /\ UNCHANGED <<timetable2, student_schedule2>>
    ELSE /\ timetable2' = Append(timetable2, Row(subj, best2, room))
         /\ student_schedule2' =
                UpdateTracker(student_schedule2, set_order2[subj],
                              best2[1], best2[2])
         /\ UNCHANGED success2

\* lines 72-78: a new attempt starts with an empty timetable and tracker
\* and a freshly shuffled course order
StartAttempt ==
    /\ pc = "loop"
    /\ attempt < MaxAttempts
    /\ attempt' = attempt + 1
    /\ timetable' = NewTimetable
    /\ student_schedule' = NewStudentSchedule
    /\ success' = TRUE
    /\ \E order \in Shuffles(all_subjects) : all_subjects' = order
    /\ idx' = 1
    /\ pc' = "place"
    /\ timetable2' = NewTimetable
    /\ student_schedule2' = NewStudentSchedule
    /\ success2' = TRUE
    /\ UNCHANGED <<days, slots, student_df, course_info, set_order, set_order2,
                   returned, returned2, available_times, best_time>>

\* lines 80-135: the next course gets the best slot of its shuffled candidates
PlaceCourse ==
    /\ pc = "place"
    /\ idx <= Len(all_subjects)
    /\ \E scan \in Scans(all_subjects[idx]), room \in 1..MaxRoom :
          LET subj == all_subjects[idx]
              best == scan.first
          IN  /\ best # NoTime
              /\ timetable' = Append(timetable, Row(subj, best, room))
              /\ student_schedule' =
                     UpdateTracker(student_schedule, set_order[subj],
                                   best[1], best[2])
              /\ Second(subj, scan.second, room)
    /\ idx' = idx + 1
    /\ UNCHANGED <<days, slots, student_df, course_info, set_order, set_order2,
                   all_subjects, attempt, pc, success, returned, returned2,
                   available_times, best_time>>

AbortKeepsFlag ==
    /\ pc = "place"
    /\ idx <= Len(all_subjects)
    /\ \E scan \in Scans(all_subjects[idx]), room \in 1..MaxRoom :
          /\ scan.first = NoTime
          /\ Second(all_subjects[idx], scan.second, room)
    /\ pc' = "check"
    /\ UNCHANGED <<days, slots, student_df, course_info, set_order, set_order2,
                   all_subjects, attempt, idx, timetable, student_schedule,
                   success, returned, returned2, available_times, best_time>>

\* lines 80-121 and 137-139: no candidate is feasible, success = False; break
AbortAttempt ==
    /\ pc = "place"
    /\ idx <= Len(all_subjects)
    /\ \E scan \in Scans(all_subjects[idx]), room \in 1..MaxRoom :
          /\ scan.first = NoTime
          /\ Second(all_subjects[idx], scan.second, room)
    /\ success' = FALSE
    /\ pc' = "check"
    /\ UNCHANGED <<days, slots, student_df, course_info, set_order, set_order2,
                   all_subjects, attempt, idx, timetable, student_schedule,
                   returned, returned2, available_times, best_time>>

\* line 80: the loop over all_subjects is exhausted
FinishCourses ==
    /\ pc = "place"
    /\ idx > Len(all_subjects)
    /\ pc' = "check"
    /\ UNCHANGED <<days, slots, student_df, course_info, set_order, set_order2,
                   all_subjects, attempt, idx, timetable, student_schedule,
                   success, returned, timetable2, student_schedule2, success2,
                   returned2, available_times, best_time>>

\* lines 141-142: if success: return pd.DataFrame(timetable)
ReturnSuccess ==
    /\ pc = "check"
    /\ success
    /\ returned' = ReturnValue(timetable)
    /\ returned2' = ReturnValue(timetable2)
    /\ pc' = "done"
    /\ UNCHANGED <<days, slots, student_df, course_info, set_order, set_order2,
                   all_subjects, attempt, idx, timetable, student_schedule,
                   success, timetable2, student_schedule2, success2,
                   available_times, best_time>>

\* line 141 is false: back to line 72
Retry ==
    /\ pc = "check"
    /\ ~success
    /\ pc' = "loop"
    /\ UNCHANGED <<days, slots, student_df, course_info, set_order, set_order2,
                   all_subjects, attempt, idx, timetable, student_schedule,
                   success, returned, timetable2, student_schedule2, success2,
                   returned2, available_times, best_time>>

\* line 144: range(100) is exhausted, return pd.DataFrame(timetable)
ReturnExhausted ==
    /\ pc = "loop"
    /\ attempt >= MaxAttempts
    /\ returned' = ReturnValue(timetable)
    /\ returned2' = ReturnValue(timetable2)
    /\ pc' = "done"
    /\ UNCHANGED <<days, slots, student_df, course_info, set_order, set_order2,
                   all_subjects, attempt, idx, timetable, student_schedule,
                   success, timetable2, student_schedule2, success2,
                   available_times, best_time>>

Next ==
    \/ StartAttempt
    \/ PlaceCourse
    \/ AbortAttempt
    \/ FinishCourses
    \/ ReturnSuccess
    \/ Retry
    \/ ReturnExhausted

Spec == Init /\ [][Next]_vars

SpecCap == InitCap /\ [][Next]_vars

-----------------------------------------------------------------------------
(* The scan of one course on its own: lines 84-121 applied to a tracker    *)
(* left by the courses placed earlier in the attempt                       *)

\* a day's list of occupied slots: distinct slots in the order of placement
DayLists(ss) == UNION {Perms(T) : T \in SUBSET Range(ss)}

\* two students of one course on two days of two slots; one student on
\* one day of four slots
ScanCases ==
    {[nd |-> 2, ns |-> 2, subjects |-> <<"A">>,
      df |-> Enrol("S1", {"A"}) \cup Enrol("S2", {"A"})],
     [nd |-> 1, ns |-> 4, subjects |-> <<"A">>,
      df |-> Enrol("S1", {"A"})]}

InitScan ==
    \E sc \in ScanCases :
        /\ days = SubSeq(AllDays, 1, sc.nd)
        /\ slots = SubSeq(AllSlots, 1, sc.ns)
        /\ student_df = sc.df
        /\ course_info = Taught(sc.subjects)
        /\ set_order \in SetOrderChoices(sc.df, sc.subjects)
        /\ set_order2 = set_order
        /\ all_subjects = sc.subjects
        /\ attempt = 1
        /\ pc = "scan"
        /\ idx = 1
        /\ timetable = <<>>
        /\ student_schedule \in
               [StudentsOf(sc.df) ->
                   [Range(SubSeq(AllDays, 1, sc.nd)) ->
                       DayLists(SubSeq(AllSlots, 1, sc.ns))]]
        /\ success = TRUE
        /\ returned = ReturnValue(<<>>)
        /\ timetable2 = <<>>
        /\ student_schedule2 = student_schedule
        /\ success2 = TRUE
        /\ returned2 = ReturnValue(<<>>)
        /\ available_times \in
               Shuffles(GridOf(SubSeq(AllDays, 1, sc.nd),
                               SubSeq(AllSlots, 1, sc.ns)))
        /\ best_time = NoTime

\* lines 87-121 on the shuffled list available_times
ScanCourse ==
    /\ pc = "scan"
    /\ best_time' = BestTime(available_times, student_schedule,
                             set_order[all_subjects[idx]])
    /\ pc' = "scanned"
    /\ UNCHANGED <<days, slots, student_df, course_info, set_order, set_order2,
                   all_subjects, attempt, idx, timetable, student_schedule,
                   success, returned, timetable2, student_schedule2, success2,
                   returned2, available_times>>

NextScan == ScanCourse

SpecScan == InitScan /\ [][NextScan]_vars

-----------------------------------------------------------------------------
(* Properties *)

SubjectsOf(tt) == [i \in 1..Len(tt) |-> tt[i].Subject]

\* every course of the catalog exactly once
Complete(tt) ==
    /\ Len(tt) = Cardinality(DOMAIN course_info)
    /\ Range(SubjectsOf(tt)) = DOMAIN course_info

\* the classes of student s in tt on day d, and those in slot t of day d
ClassesOn(tt, s, d) ==
    {i \in 1..Len(tt) : s \in course_students[tt[i].Subject] /\ tt[i].Day = d}

ClassesAt(tt, s, d, t) ==
    {i \in ClassesOn(tt, s, d) : tt[i].TimeSlot = t}

\* C1: in an assignment returned from a successful attempt, no student has
\* two of their courses in the same slot of the same day.
C1_ClashFree ==
    (pc = "done" /\ success) =>
        \A s \in Students : \A k \in 1..Len(Grid) :
            Cardinality(ClassesAt(returned.rows, s, Grid[k][1], Grid[k][2])) <= 1

C1_Witness ==
    /\ pc = "done"
    /\ success
    /\ Cardinality(Students) = 2
    /\ \A s \in Students : \E d \in Range(days) :
           Cardinality(ClassesOn(returned.rows, s, d)) = 2

\* C2: in an assignment returned from a successful attempt, no student has
\* more than 4 classes on one day.
C2_DailyCap ==
    (pc = "done" /\ success) =>
        \A s \in Students : \A d \in Range(days) :
            Cardinality(ClassesOn(returned.rows, s, d)) <= 4

C2_Witness ==
    /\ pc = "done"
    /\ success
    /\ \E s \in Students : \E d \in Range(days) :
           Cardinality(ClassesOn(returned.rows, s, d)) = 4

\* C3: the attempt that places every course is followed by the return of
\* its timetable, which holds every course of the catalog exactly once, each
\* at one slot of the grid; a further attempt starts only after an attempt
\* that did not place every course.
C3_CompleteOnSuccess ==
    [][/\ (pc = "check" /\ idx > Len(all_subjects)) =>
              /\ pc' = "done"
              /\ returned'.rows = timetable
              /\ Complete(timetable)
              /\ \A i \in 1..Len(timetable) :
                     <<timetable[i].Day, timetable[i].TimeSlot>> \in Range(Grid)
       /\ (attempt' # attempt) => (attempt = 0 \/ idx <= Len(all_subjects))
       /\ (pc' = "done" /\ success') => Complete(returned'.rows)]_vars

C3_Witness ==
    /\ pc = "done"
    /\ success
    /\ attempt >= 2
    /\ Complete(returned.rows)

\* no slot of the grid is free of clash and under the daily cap for every
\* student of subj, given the classes in tt
NoFeasibleSlot(tt, subj) ==
    \A k \in 1..Len(Grid) : \E s \in course_students[subj] :
        \/ ClassesAt(tt, s, Grid[k][1], Grid[k][2]) # {}
        \/ Cardinality(ClassesOn(tt, s, Grid[k][1])) >= 4

\* C4: an incomplete assignment is returned only after 100 attempts; it is
\* the timetable of the last attempt, which holds the courses of that
\* attempt's order before the first one without a feasible slot, and none
\* after it.
C4_ExhaustedFallback ==
    (pc = "done" /\ (~success \/ ~Complete(returned.rows))) =>
        /\ attempt = 100
        /\ returned.rows = timetable
        /\ Len(timetable) < Len(all_subjects)
        /\ SubjectsOf(timetable) = SubSeq(all_subjects, 1, Len(timetable))
        /\ NoFeasibleSlot(timetable, all_subjects[Len(timetable) + 1])

C4_Witness ==
    /\ pc = "done"
    /\ ~success
    /\ attempt = 100
    /\ Len(returned.rows) = 2

\* one student, enrolled in every course, with more courses than slots
Overfull ==
    /\ Cardinality(Students) = 1
    /\ \A c \in DOMAIN course_info : course_students[c] = Students
    /\ Cardinality(DOMAIN course_info) > Len(Grid)

\* C5: with one student in more courses than there are slots, the value
\* returned after the restart budget is exhausted carries a report of the
\* incompleteness beside the rows.
C5_IncompletenessReported ==
    (pc = "done" /\ Overfull) => DOMAIN returned # {"rows"}

\* exactly one student, enrolled in every course
SoleStudent ==
    /\ Cardinality(Students) = 1
    /\ \A c \in DOMAIN course_info : course_students[c] = Students

DayCount(tt, d) == Cardinality({i \in 1..Len(tt) : tt[i].Day = d})

RECURSIVE SumOver(_, _)
SumOver(f, D) ==
    IF D = {} THEN 0
    ELSE LET d == CHOOSE x \in D : TRUE IN f[d] + SumOver(f, D \ {d})

\* n classes fit the grid with no day holding exactly one of them
FitsWithoutSingles(n) ==
    LET most == IF Len(slots) < 4 THEN Len(slots) ELSE 4
    IN  \E f \in [Range(days) -> 0..most] :
            /\ SumOver(f, Range(days)) = n
            /\ \A d \in Range(days) : f[d] # 1

\* C6 as claimed: with a sole student, the returned assignment leaves no day
\* with exactly one class when an arrangement without such a day exists.
C6_NoSingleClassDay ==
    (pc = "done" /\ success /\ SoleStudent
        /\ FitsWithoutSingles(Cardinality(DOMAIN course_info))) =>
        \A d \in Range(days) : DayCount(returned.rows, d) # 1

\* C6 as amended: with a sole student, the classes are spread evenly: the
\* numbers of classes of any two days differ by at most one.
C6_EvenSpread ==
    (pc = "done" /\ success /\ SoleStudent) =>
        \A d1, d2 \in Range(days) :
            DayCount(returned.rows, d1) - DayCount(returned.rows, d2) <= 1

C6_Witness ==
    /\ pc = "done"
    /\ success
    /\ SoleStudent
    /\ FitsWithoutSingles(Cardinality(DOMAIN course_info))
    /\ \E d \in Range(days) : DayCount(returned.rows, d) = 1

\* C7: two runs on the same inputs and the same random draws agree on the
\* timetable, the tracker, the outcome and the returned value, whatever the
\* order in which each iterates the student sets.
C7_SameDrawsSameResult ==
    /\ timetable = timetable2
    /\ student_schedule = student_schedule2
    /\ success = success2
    /\ returned = returned2

C7_Witness ==
    /\ pc = "done"
    /\ success
    /\ Len(returned.rows) = 3
    /\ \E c \in DOMAIN course_info : set_order[c] # set_order2[c]

PairwiseDisjoint ==
    \A c1, c2 \in DOMAIN course_info :
        c1 # c2 => course_students[c1] \cap course_students[c2] = {}

\* C8: when the student sets of the courses are pairwise disjoint, no
\* attempt fails: the first attempt places every course and is returned.
C8_DisjointPlacedAtOnce ==
    PairwiseDisjoint =>
        /\ attempt <= 1
        /\ success
        /\ (pc = "done" => Complete(returned.rows))

C8_Witness ==
    /\ PairwiseDisjoint
    /\ pc = "done"
    /\ Complete(returned.rows)
    /\ \E i, j \in 1..Len(returned.rows) :
           /\ i # j
           /\ returned.rows[i].Day = returned.rows[j].Day
           /\ returned.rows[i].TimeSlot = returned.rows[j].TimeSlot

\* the students of the course being scanned
Scanned == course_students[all_subjects[idx]]

\* candidate t is free of clash and under the cap for every scanned student
HardFeasible(t) ==
    \A s \in Scanned :
        /\ t[2] \notin Range(student_schedule[s][t[1]])
        /\ Len(student_schedule[s][t[1]]) < 4

Table(n) ==
    CASE n = 0 -> -1000
      [] n = 1 -> -500
      [] n = 2 -> 100
      [] OTHER -> 500

RECURSIVE ScoreOver(_, _)
ScoreOver(S, d) ==
    IF S = {} THEN 0
    ELSE LET s == CHOOSE x \in S : TRUE
         IN  Table(Len(student_schedule[s][d])) + ScoreOver(S \ {s}, d)

Score(t) == ScoreOver(Scanned, t[1])

FeasibleAt == {k \in 1..Len(available_times) : HardFeasible(available_times[k])}

\* C9: the scan leaves in best_time the first candidate of the shuffled list
\* among the hard-feasible ones of minimum score, and nothing when no
\* candidate is hard-feasible.
C9_FirstBestSlot ==
    (pc = "scanned") =>
        IF FeasibleAt = {} THEN best_time = NoTime
        ELSE \E k \in FeasibleAt :
                /\ best_time = available_times[k]
                /\ \A j \in FeasibleAt :
                       \/ Score(available_times[j]) > Score(available_times[k])
                       \/ /\ Score(available_times[j]) = Score(available_times[k])
                          /\ j >= k

C9_Witness ==
    /\ pc = "scanned"
    /\ best_time # NoTime
    /\ \E k, j, m \in 1..Len(available_times) :
           /\ best_time = available_times[k]
           /\ j \in FeasibleAt
           /\ j > k
           /\ Score(available_times[j]) = Score(available_times[k])
           /\ m < k
           /\ m \notin FeasibleAt

\* C10: when an attempt begins to place courses, the timetable is empty,
\* no student holds any slot, and every slot is feasible for every course
\* at the penalty of empty days.
C10_AttemptIsolation ==
    (pc = "place" /\ idx = 1) =>
        /\ timetable = <<>>
        /\ \A s \in Students : \A d \in Range(days) : student_schedule[s][d] = <<>>
        /\ \A c \in DOMAIN course_info : \A k \in 1..Len(Grid) :
               LET ev == EvalSlot(set_order[c], student_schedule,
                                  Grid[k][1], Grid[k][2])
               IN  /\ ~ev.clash
                   /\ ~ev.daily_limit_reached
                   /\ ev.penalty = -1000 * Cardinality(course_students[c])

C10_Witness ==
    /\ pc = "place"
    /\ idx = 1
    /\ attempt >= 2

====
